---- MODULE Spec2Model ----
(***************************************************************************)
(* Order placement and order lifecycle of the gift-ordering backend.       *)
(*                                                                         *)
(* The model follows the route handlers statement by statement.  Every     *)
(* await on the database is a step of its own, so that requests overlap    *)
(* exactly where the event loop lets them overlap.                         *)
(*                                                                         *)
(* Units.  Quantities and stock counts are JavaScript numbers and may be   *)
(* fractional; they are counted here in halves of a unit, so that          *)
(* MinQuantity (the order model's "min: 1") is two halves.  Money is       *)
(* counted in steps of 0.005 currency units, so that Tolerance (0.01) is   *)
(* two steps.  Prices are per whole unit.                                  *)
(***************************************************************************)
EXTENDS Integers, Sequences, FiniteSets, TLC

\* ------------------------------------------------------------------ bounds
MaxCalls == 2         \* handler calls started in one behaviour

\* ------------------------------------------------------- program constants
MinQuantity == 2      \* OrderSchema.items.quantity min: 1 (in halves)
Tolerance == 2        \* Math.abs(...) < 0.01 (in steps of 0.005)

\* -------------------------------------------------------------- value sets
Slots == {"r1", "r2"}
Users == {"u1", "u2"}
GiftIds == {"g1", "g2"}
NoUser == "none"
Absent == "absent"
NoGift == [absent |-> TRUE]
InitialCatalogs ==
  {[g1 |-> [price |-> 2, inStock |-> TRUE, stockCount |-> 2 * MinQuantity],
    g2 |-> [price |-> 2, inStock |-> TRUE, stockCount |-> MinQuantity]],
   [g1 |-> [price |-> 2, inStock |-> TRUE, stockCount |-> MinQuantity],
    g2 |-> NoGift]}

Abs(x) == IF x < 0 THEN -x ELSE x

RECURSIVE SumSeq(_)
SumSeq(s) == IF s = <<>> THEN 0 ELSE Head(s) + SumSeq(Tail(s))

\* ------------------------------------------------------------ Zod schemas
\* OrderItemSchema: quantity positive, price nonnegative.
OrderItemIssues(item, i) ==
  (IF item.quantity > 0 THEN {}
   ELSE {<<"items." \o ToString(i - 1) \o ".quantity", "Quantity must be positive">>})
  \cup
  (IF item.price >= 0 THEN {}
   ELSE {<<"items." \o ToString(i - 1) \o ".price", "Price cannot be negative">>})

\* The refinement of OrderValidationSchema: the monetary consistency check.
CalculatedTotal(items) ==
  SumSeq([i \in 1..Len(items) |-> (items[i].price * items[i].quantity) \div MinQuantity])

ExpectedTotal(data) ==
  CalculatedTotal(data.items) + data.deliveryFee + data.tax - data.discount

\* A slip of the comparison: a difference of exactly 0.01 accepted.
OrderTotalMatchesLoose(data) == Abs(ExpectedTotal(data) - data.totalAmount) <= Tolerance

OrderTotalMatches(data) == Abs(ExpectedTotal(data) - data.totalAmount) < Tolerance

\* OrderValidationSchema.parse, as a set of <<path, message>> issues.  A
\* deliveryTime that is not a Date is a type error: the object parse aborts
\* and the refinement does not run.  Failed checks (min, positive) leave the
\* parse dirty and the refinement still runs.
OrderValidationIssues(b) ==
  LET typeIssues ==
        IF b.deliveryTimeIsDate THEN {}
        ELSE {<<"deliveryTime", "Expected date, received string">>}
      checkIssues ==
        (IF b.user # "" THEN {} ELSE {<<"user", "User ID is required">>})
        \cup (IF Len(b.items) >= 1 THEN {}
              ELSE {<<"items", "At least one item is required">>})
        \cup UNION {OrderItemIssues(b.items[i], i) : i \in 1..Len(b.items)}
        \cup (IF b.totalAmount > 0 THEN {}
              ELSE {<<"totalAmount", "Total amount must be positive">>})
      refineIssues ==
        IF typeIssues = {} /\ ~OrderTotalMatches(b)
        THEN {<<"totalAmount",
                "Total amount does not match the sum of items + delivery fee + tax - discount">>}
        ELSE {}
  IN  [type |-> typeIssues, checks |-> checkIssues, refine |-> refineIssues]

\* validation.data: unknown keys stripped, defaults filled in.
OrderValidationData(b) ==
  [user |-> b.user,
   items |-> b.items,
   status |-> IF b.status = Absent THEN "pending" ELSE b.status,
   totalAmount |-> b.totalAmount,
   deliveryFee |-> b.deliveryFee,
   tax |-> b.tax,
   discount |-> b.discount,
   tracking |-> b.tracking]

\* A slip of validateData: only type errors reported, failed checks and the
\* refinement let through.
validateDataTypesOnly(b) ==
  LET iss == OrderValidationIssues(b)
  IN  IF iss.type = {}
      THEN [success |-> TRUE, data |-> OrderValidationData(b), errors |-> {}]
      ELSE [success |-> FALSE, data |-> Absent, errors |-> iss.type]

\* validateData: formattedErrors[path] = message for each issue in order, a
\* later issue of the same path replacing an earlier one.  The refinement's
\* issue comes last.
validateData(b) ==
  LET iss == OrderValidationIssues(b)
      early == iss.type \cup iss.checks
      kept == {e \in early : \A l \in iss.refine : l[1] # e[1]}
  IN  IF early \cup iss.refine = {}
      THEN [success |-> TRUE, data |-> OrderValidationData(b), errors |-> {}]
      ELSE [success |-> FALSE, data |-> Absent, errors |-> kept \cup iss.refine]

\* ------------------------------------------------------------------ state
VARIABLES
  gifts,    \* Gift collection: id -> [inStock, stockCount] or NoGift
  orders,   \* Order collection, in insertion order
  pc,       \* per request slot: position in its handler
  data,     \* POST: validation.data; PUT: the parsed body
  idx,      \* POST: index of the line item of the for loop
  doc,      \* the document the handler holds in memory (a Gift or an Order)
  txn,      \* POST: orderSession's transaction
  resp,     \* the response of the slot's last call
  call,     \* per slot: the current call, its caller and raw body, and the
            \* collections as they were when it started (history)
  log,      \* per slot: the awaited operations of the current call, in order
  calls     \* handler calls started so far

vars == <<gifts, orders, pc, data, idx, doc, txn, resp, call, log, calls>>

NoTxn == [state |-> "none", snapshot |-> <<>>]
NoResp == [status |-> 0, errors |-> {}, error |-> "", order |-> 0]
NoCall == [op |-> "none", id |-> 0, caller |-> NoUser, body |-> <<>>,
           gifts |-> <<>>, orders |-> <<>>, alone |-> TRUE]

Init ==
  /\ gifts \in InitialCatalogs
  /\ orders = <<>>
  /\ pc = [r \in Slots |-> "idle"]
  /\ data = [r \in Slots |-> Absent]
  /\ idx = [r \in Slots |-> 0]
  /\ doc = [r \in Slots |-> Absent]
  /\ txn = [r \in Slots |-> NoTxn]
  /\ resp = [r \in Slots |-> NoResp]
  /\ call = [r \in Slots |-> NoCall]
  /\ log = [r \in Slots |-> <<>>]
  /\ calls = 0

\* ------------------------------------------------ POST /api/orders (place)
\* Request bodies.  A line item's price is the client's; the fee, tax and
\* discount are all absent-or-one-step; the optional fields (a user field,
\* a status, a deliveryTime, which JSON carries as a string) are given
\* together or not at all.
Item(g, q) == [gift |-> g, quantity |-> q, price |-> 2]

ItemLists ==
  {<<>>,
   <<Item("g1", 0)>>,
   <<Item("g1", 1)>>,
   <<Item("g1", MinQuantity)>>,
   <<Item("g1", MinQuantity + 1)>>,
   <<Item("g2", MinQuantity)>>,
   <<Item("g1", MinQuantity), Item("g1", MinQuantity)>>,
   <<Item("g1", MinQuantity), Item("g2", MinQuantity)>>}

Breakdowns ==
  {[deliveryFee |-> f, tax |-> f, discount |-> f] : f \in {0, 1}}

TotalAmounts == {0, 2, 4}

BodyExtras ==
  {[user |-> Absent, status |-> Absent, deliveryTimeIsDate |-> TRUE],
   [user |-> "u2", status |-> "delivered", deliveryTimeIsDate |-> TRUE],
   [user |-> Absent, status |-> Absent, deliveryTimeIsDate |-> FALSE]}

PlainItems == <<Item("g1", MinQuantity)>>
PlainBreakdown == [deliveryFee |-> 0, tax |-> 0, discount |-> 0]
PlainExtras == [user |-> Absent, status |-> Absent, deliveryTimeIsDate |-> TRUE]

\* A body departs from the plain one-item body in at most one of its items,
\* its fee/tax/discount and its optional fields; totalAmount is free.
OrderBodies ==
  {[user |-> v.x.user, items |-> v.items, deliveryTimeIsDate |-> v.x.deliveryTimeIsDate,
    status |-> v.x.status, totalAmount |-> t, deliveryFee |-> v.k.deliveryFee,
    tax |-> v.k.tax, discount |-> v.k.discount, tracking |-> Absent] :
     t \in TotalAmounts,
     v \in {w \in [x : BodyExtras, items : ItemLists, k : Breakdowns] :
              \/ w.items = PlainItems /\ w.k = PlainBreakdown
              \/ w.items = PlainItems /\ w.x = PlainExtras
              \/ w.k = PlainBreakdown /\ w.x = PlainExtras}}

Free(r) == pc[r] \in {"idle", "done"}

\* What a handler leaves behind when it returns a response.
Respond(r, status, errors, error, order) ==
  /\ pc' = [pc EXCEPT ![r] = "done"]
  /\ resp' = [resp EXCEPT ![r] = [status |-> status, errors |-> errors,
                                  error |-> error, order |-> order]]
  /\ data' = [data EXCEPT ![r] = Absent]
  /\ idx' = [idx EXCEPT ![r] = 0]
  /\ doc' = [doc EXCEPT ![r] = Absent]

\* The inner catch and finally of POST: abortTransaction, endSession, and the
\* outer catch answering 500 with error.message.  `ops` are the operations
\* the step awaited before the throw.
AbortAndFail(r, ops, message) ==
  /\ txn' = [txn EXCEPT ![r] = [state |-> "aborted", snapshot |-> <<>>]]
  /\ log' = [log EXCEPT ![r] = @ \o ops \o <<"abortTransaction", "endSession">>]
  /\ Respond(r, 500, {}, message, 0)

\* Lines 18-58: connectToDatabase, getServerSession, req.json, the stamping
\* of body.user, validateData, startSession and startTransaction.  None of
\* them reads or writes a document.
\* A handler call starts in a free slot: the slots are interchangeable, so the
\* first call of a behaviour is put in slot r1.
BeginCall(r, op, c, b) ==
  /\ Free(r)
  /\ r = "r1" \/ pc["r1"] # "idle"
  /\ calls < MaxCalls
  /\ calls' = calls + 1
  /\ call' = [call EXCEPT ![r] =
                [op |-> op, id |-> calls + 1, caller |-> c, body |-> b,
                 gifts |-> <<gifts>>, orders |-> <<orders>>,
                 alone |-> \A q \in Slots \ {r} : Free(q)]]

POST_ConnectFails(r) ==
  /\ \E c \in Users \cup {NoUser} : BeginCall(r, "placeOrder", c, <<>>)
  /\ log' = [log EXCEPT ![r] = <<"connectToDatabase">>]
  /\ Respond(r, 500, {}, "MongoError: connect ECONNREFUSED", 0)
  /\ txn' = [txn EXCEPT ![r] = NoTxn]
  /\ UNCHANGED <<gifts, orders>>

POST_Unauthenticated(r) ==
  /\ BeginCall(r, "placeOrder", NoUser, <<>>)
  /\ log' = [log EXCEPT ![r] = <<"connectToDatabase", "getServerSession">>]
  /\ Respond(r, 401, {}, "Authentication required", 0)
  /\ txn' = [txn EXCEPT ![r] = NoTxn]
  /\ UNCHANGED <<gifts, orders>>

\* A slip of the stamping: a user field of the body wins.
StampUserIfMissing(b, c) == IF b.user = Absent THEN [b EXCEPT !.user = c] ELSE b

\* Line 37: body.user = session.user.id.
StampUser(b, c) == [b EXCEPT !.user = c]

POST_Begin(r) ==
  /\ \E c \in Users, b \in OrderBodies :
       LET validation == validateData(StampUser(b, c)) IN
       /\ BeginCall(r, "placeOrder", c, <<b>>)
       /\ IF ~validation.success
          THEN /\ log' = [log EXCEPT ![r] =
                            <<"connectToDatabase", "getServerSession", "validateData">>]
               /\ Respond(r, 400, validation.errors, "", 0)
               /\ txn' = [txn EXCEPT ![r] = NoTxn]
          ELSE /\ log' = [log EXCEPT ![r] =
                            <<"connectToDatabase", "getServerSession", "validateData",
                              "startTransaction">>]
               /\ txn' = [txn EXCEPT ![r] = [state |-> "active", snapshot |-> <<>>]]
               /\ pc' = [pc EXCEPT ![r] = "find"]
               /\ data' = [data EXCEPT ![r] = validation.data]
               /\ idx' = [idx EXCEPT ![r] = 1]
               /\ resp' = [resp EXCEPT ![r] = NoResp]
               /\ doc' = [doc EXCEPT ![r] = Absent]
  /\ UNCHANGED <<gifts, orders>>

\* Line 67: Gift.findById(item.gift).session(orderSession).  The read runs
\* inside orderSession's transaction: it may be served from the snapshot the
\* transaction opened at its first operation, or see the latest committed
\* document.  txn.snapshot is empty or holds the one snapshot.
ReadViews(r, g) ==
  {gifts[g]} \cup {txn[r].snapshot[i][g] : i \in 1..Len(txn[r].snapshot)}

\* Line 69: the stock check of one line item.
StockCheckFails(gift, item) ==
  gift = NoGift \/ ~gift.inStock \/ gift.stockCount < item.quantity

\* Lines 73-77: the decrement on the in-memory document, with the paths
\* Mongoose marks modified.
DecrementStock(g, gift, item) ==
  LET n == gift.stockCount - item.quantity
      inStock == IF n = 0 THEN FALSE ELSE gift.inStock
  IN  [id |-> g, stockCount |-> n, inStock |-> inStock,
       modified |-> {"stockCount"} \cup
                    (IF inStock # gift.inStock THEN {"inStock"} ELSE {})]

\* A slip of the message: the first line item named, whichever item failed.
StockErrorFirstItem(items, i) ==
  "Gift " \o items[1].gift \o " is out of stock or unavailable"

\* Line 70: the message names item.gift of the line item being checked.
StockError(items, i) ==
  "Gift " \o items[i].gift \o " is out of stock or unavailable"

POST_FindGift(r) ==
  /\ pc[r] = "find"
  /\ LET item == data[r].items[idx[r]]
         g == item.gift
     IN \E gift \in ReadViews(r, g) :
          IF StockCheckFails(gift, item)
          THEN /\ AbortAndFail(r, <<"Gift.findById">>, StockError(data[r].items, idx[r]))
          ELSE /\ doc' = [doc EXCEPT ![r] = DecrementStock(g, gift, item)]
               /\ txn' = [txn EXCEPT ![r] =
                            [@ EXCEPT !.snapshot = IF @ = <<>> THEN <<gifts>> ELSE @]]
               /\ log' = [log EXCEPT ![r] = Append(@, "Gift.findById")]
               /\ pc' = [pc EXCEPT ![r] = "save"]
               /\ UNCHANGED <<data, idx, resp>>
  /\ UNCHANGED <<gifts, orders, call, calls>>

\* Line 79: gift.save({ session }).  `session` is the next-auth session of
\* line 23, not orderSession: the write is not part of orderSession's
\* transaction.  It is either refused by the driver (any save may also fail
\* for infrastructure reasons) or applied to the collection at once.  A save
\* writes the modified paths only; a document deleted in the meantime makes
\* it throw.
SavedGift(stored, d) ==
  [stored EXCEPT
     !.stockCount = IF "stockCount" \in d.modified THEN d.stockCount ELSE @,
     !.inStock = IF "inStock" \in d.modified THEN d.inStock ELSE @]

POST_SaveGift(r) ==
  /\ pc[r] = "save"
  /\ UNCHANGED <<orders, call, calls>>
  /\ \/ /\ AbortAndFail(r, <<"gift.save">>, "MongoError: gift save failed")
        /\ UNCHANGED gifts
     \/ /\ gifts[doc[r].id] = NoGift
        /\ AbortAndFail(r, <<"gift.save">>, "DocumentNotFoundError: No document found")
        /\ UNCHANGED gifts
     \/ /\ gifts[doc[r].id] # NoGift
        /\ gifts' = [gifts EXCEPT ![doc[r].id] = SavedGift(@, doc[r])]
        /\ log' = [log EXCEPT ![r] = Append(@, "gift.save")]
        /\ idx' = [idx EXCEPT ![r] = @ + 1]
        /\ pc' = [pc EXCEPT ![r] =
                    IF idx[r] < Len(data[r].items) THEN "find" ELSE "order"]
        /\ doc' = [doc EXCEPT ![r] = Absent]
        /\ UNCHANGED <<data, txn, resp>>

\* Lines 83-92: new Order(validation.data) and the initial tracking event
\* (its timestamp is not modelled).  `call` records the call that built the
\* order.
PendingEvent == [status |-> "pending", description |-> "Order received"]

NewOrder(d, id) ==
  [user |-> d.user,
   items |-> d.items,
   status |-> d.status,
   tracking |-> <<PendingEvent>>,
   totalAmount |-> d.totalAmount,
   deliveryFee |-> d.deliveryFee,
   tax |-> d.tax,
   discount |-> d.discount,
   specialInstructions |-> Absent,
   call |-> id]

\* OrderSchema's own validators (lines 316-333): quantity min 1.
OrderSchemaValid(o) ==
  \A i \in 1..Len(o.items) : o.items[i].quantity >= MinQuantity

\* OrderSchema.pre("save") (lines 427-463): OrderValidationSchema.parse of
\* the document's fields.
OrderPreSaveValid(o) ==
  LET iss == OrderValidationIssues(
               [user |-> o.user, items |-> o.items, deliveryTimeIsDate |-> TRUE,
                status |-> o.status, totalAmount |-> o.totalAmount,
                deliveryFee |-> o.deliveryFee, tax |-> o.tax,
                discount |-> o.discount, tracking |-> o.tracking])
  IN  iss.type \cup iss.checks \cup iss.refine = {}

\* Line 94: order.save({ session }), with the same `session` as line 79.
POST_SaveOrder(r) ==
  /\ pc[r] = "order"
  /\ UNCHANGED <<gifts, call, calls>>
  /\ LET order == NewOrder(data[r], call[r].id) IN
     \/ /\ ~(OrderSchemaValid(order) /\ OrderPreSaveValid(order))
        /\ AbortAndFail(r, <<"order.save">>, "Order validation failed")
        /\ UNCHANGED orders
     \/ /\ OrderSchemaValid(order) /\ OrderPreSaveValid(order)
        /\ AbortAndFail(r, <<"order.save">>, "MongoError: order save failed")
        /\ UNCHANGED orders
     \/ /\ OrderSchemaValid(order) /\ OrderPreSaveValid(order)
        /\ orders' = Append(orders, order)
        /\ doc' = [doc EXCEPT ![r] = Len(orders) + 1]
        /\ log' = [log EXCEPT ![r] = Append(@, "order.save")]
        /\ pc' = [pc EXCEPT ![r] = "commit"]
        /\ UNCHANGED <<data, idx, txn, resp>>

\* Lines 97-99: commitTransaction, endSession (finally) and the 201 response.
\* The transaction holds no write, so a commit has nothing to apply and an
\* abort nothing to undo.
POST_Commit(r) ==
  /\ pc[r] = "commit"
  /\ UNCHANGED <<gifts, orders, call, calls>>
  /\ \/ AbortAndFail(r, <<"commitTransaction">>, "MongoError: commit failed")
     \/ /\ txn' = [txn EXCEPT ![r] = [state |-> "committed", snapshot |-> <<>>]]
        /\ log' = [log EXCEPT ![r] = @ \o <<"commitTransaction", "endSession">>]
        /\ Respond(r, 201, {}, "", doc[r])

\* ------------------------------------------- PUT /api/orders/[id] (update)
Patches ==
  {p \in [specialInstructions : {Absent, "gift wrap"},
          status : {Absent, "canceled", "delivered"},
          cancellationReason : {Absent, "", "changed mind"}] :
     p.cancellationReason # Absent => p.status = "canceled"}

\* A slip of the ownership check: every authenticated caller passes.
IsOwnerOrAnyone(o, c) == c # NoUser

\* Line 93: order.user.toString() !== session.user.id.
IsOwner(o, c) == o.user = c

\* A slip of the status check: only a canceled order is refused.
UpdatableUnlessCanceled(o) == o.status # "canceled"

\* Line 104: ["pending", "confirmed"].includes(order.status).
Updatable(o) == o.status \in {"pending", "confirmed"}

\* Shared by the early returns of PUT and GET.
PutRespond(r, ops, status, error) ==
  /\ log' = [log EXCEPT ![r] = ops]
  /\ Respond(r, status, {}, error, 0)
  /\ txn' = [txn EXCEPT ![r] = NoTxn]

\* Lines 111-129: the changes made to the loaded document, with the paths
\* Mongoose marks modified and the events pushed to tracking.
CanceledEvent(patch) ==
  [status |-> "canceled",
   description |-> IF patch.cancellationReason \in {Absent, ""}
                   THEN "Canceled by customer"
                   ELSE patch.cancellationReason]

\* A slip of the cancellation: any status of the patch is taken over.
ApplyPatchAnyStatus(id, o, patch) ==
  LET change == patch.status # Absent
      instr == patch.specialInstructions # Absent
  IN  [id |-> id,
       order |-> [o EXCEPT
                    !.specialInstructions = IF instr THEN patch.specialInstructions ELSE @,
                    !.status = IF change THEN patch.status ELSE @],
       modified |-> (IF instr /\ patch.specialInstructions # o.specialInstructions
                     THEN {"specialInstructions"} ELSE {})
                    \cup (IF change THEN {"status"} ELSE {}),
       pushed |-> <<>>]

ApplyPatch(id, o, patch) ==
  LET cancel == patch.status = "canceled" /\ o.status \in {"pending", "confirmed"}
      instr == patch.specialInstructions # Absent
  IN  [id |-> id,
       order |-> [o EXCEPT
                    !.specialInstructions = IF instr THEN patch.specialInstructions ELSE @,
                    !.status = IF cancel THEN "canceled" ELSE @,
                    !.tracking = IF cancel THEN Append(@, CanceledEvent(patch)) ELSE @],
       modified |-> (IF instr /\ patch.specialInstructions # o.specialInstructions
                     THEN {"specialInstructions"} ELSE {})
                    \cup (IF cancel THEN {"status"} ELSE {}),
       pushed |-> IF cancel THEN <<CanceledEvent(patch)>> ELSE <<>>]

\* Lines 68-129: connectToDatabase, getServerSession, Order.findById and the
\* checks and changes made on the loaded document.
PUT_Begin(r) ==
  /\ UNCHANGED <<gifts, orders, data, idx>>
  /\ \E c \in Users \cup {NoUser}, id \in 1..(Len(orders) + 1), patch \in Patches :
       /\ BeginCall(r, "updateOrder", c, <<[order |-> id, patch |-> patch]>>)
       /\ \/ PutRespond(r, <<"connectToDatabase">>, 500, "Failed to update order")
          \/ /\ c = NoUser
             /\ PutRespond(r, <<"connectToDatabase", "getServerSession">>,
                           401, "Authentication required")
          \/ /\ c # NoUser
             /\ LET ops == <<"connectToDatabase", "getServerSession", "Order.findById">> IN
                IF id > Len(orders)
                THEN PutRespond(r, ops, 404, "Order not found")
                ELSE IF ~IsOwner(orders[id], c)
                THEN PutRespond(r, ops, 403, "Access denied")
                ELSE IF ~Updatable(orders[id])
                THEN PutRespond(r, ops, 400, "Order cannot be updated at this stage")
                ELSE /\ doc' = [doc EXCEPT ![r] = ApplyPatch(id, orders[id], patch)]
                     /\ pc' = [pc EXCEPT ![r] = "putsave"]
                     /\ log' = [log EXCEPT ![r] = ops]
                     /\ resp' = [resp EXCEPT ![r] = NoResp]
                     /\ txn' = [txn EXCEPT ![r] = NoTxn]

\* Line 131: order.save().  The pre-save hook validates the document in
\* memory; the update writes the modified paths and pushes the new events.
\* A slip of the save: the whole tracking array written, not the new events.
SavedOrderWholeTracking(stored, d) ==
  [stored EXCEPT
     !.specialInstructions =
        IF "specialInstructions" \in d.modified THEN d.order.specialInstructions ELSE @,
     !.status = IF "status" \in d.modified THEN d.order.status ELSE @,
     !.tracking = d.order.tracking]

SavedOrder(stored, d) ==
  [stored EXCEPT
     !.specialInstructions =
        IF "specialInstructions" \in d.modified THEN d.order.specialInstructions ELSE @,
     !.status = IF "status" \in d.modified THEN d.order.status ELSE @,
     !.tracking = @ \o d.pushed]

\* A slip of the save: a cancellation gives the first line item's quantity
\* back to its gift.
PUT_SaveRestocking(r) ==
  /\ pc[r] = "putsave"
  /\ UNCHANGED <<call, calls, txn>>
  /\ OrderSchemaValid(doc[r].order) /\ OrderPreSaveValid(doc[r].order)
  /\ orders' = [orders EXCEPT ![doc[r].id] = SavedOrder(@, doc[r])]
  /\ LET item == doc[r].order.items[1] IN
     gifts' = IF doc[r].pushed # <<>> /\ gifts[item.gift] # NoGift
              THEN [gifts EXCEPT ![item.gift] =
                      [@ EXCEPT !.stockCount = @ + item.quantity, !.inStock = TRUE]]
              ELSE gifts
  /\ log' = [log EXCEPT ![r] = Append(@, "order.save")]
  /\ Respond(r, 200, {}, "", doc[r].id)

PUT_Save(r) ==
  /\ pc[r] = "putsave"
  /\ UNCHANGED <<gifts, call, calls, txn>>
  /\ \/ /\ log' = [log EXCEPT ![r] = Append(@, "order.save")]
        /\ Respond(r, 500, {}, "Failed to update order", 0)
        /\ UNCHANGED orders
     \/ /\ OrderSchemaValid(doc[r].order) /\ OrderPreSaveValid(doc[r].order)
        /\ orders' = [orders EXCEPT ![doc[r].id] = SavedOrder(@, doc[r])]
        /\ log' = [log EXCEPT ![r] = Append(@, "order.save")]
        /\ Respond(r, 200, {}, "", doc[r].id)

\* ------------------------------------------------- /api/gifts (the catalog)
\* The fields of GiftValidationSchema that orders depend on.  price is
\* required; the catalog's gifts start at price 2 and a body asks for 4.
\* inStock and stockCount are each given as <<value>> or left out as <<>>,
\* and a field the body leaves out takes the schema's default.
GiftBodies ==
  [price : {4}, inStock : {<<>>, <<FALSE>>}, stockCount : {<<>>, <<MinQuantity>>}]

GiftValidationData(b) ==
  [price |-> b.price,
   inStock |-> IF b.inStock = <<>> THEN TRUE ELSE b.inStock[1],
   stockCount |-> IF b.stockCount = <<>> THEN 0 ELSE b.stockCount[1]]

\* POST /api/gifts: new Gift(validation.data), gift.save().
GiftCreate(g) ==
  /\ calls < MaxCalls
  /\ gifts[g] = NoGift
  /\ \E b \in GiftBodies : gifts' = [gifts EXCEPT ![g] = GiftValidationData(b)]
  /\ calls' = calls + 1
  /\ UNCHANGED <<orders, pc, data, idx, doc, txn, resp, call, log>>

\* A slip of the update: the new price written into the orders' line items.
GiftUpdateRepricing(g) ==
  /\ calls < MaxCalls
  /\ gifts[g] # NoGift
  /\ \E b \in GiftBodies :
       /\ gifts' = [gifts EXCEPT ![g] = GiftValidationData(b)]
       /\ orders' = [i \in 1..Len(orders) |->
                       [orders[i] EXCEPT !.items =
                          [j \in 1..Len(@) |->
                             IF @[j].gift = g THEN [@[j] EXCEPT !.price = b.price]
                             ELSE @[j]]]]
  /\ calls' = calls + 1
  /\ UNCHANGED <<pc, data, idx, doc, txn, resp, call, log>>

\* PUT /api/gifts/[id]: Object.assign(gift, validation.data), gift.save().
GiftUpdate(g) ==
  /\ calls < MaxCalls
  /\ gifts[g] # NoGift
  /\ \E b \in GiftBodies : gifts' = [gifts EXCEPT ![g] = GiftValidationData(b)]
  /\ calls' = calls + 1
  /\ UNCHANGED <<orders, pc, data, idx, doc, txn, resp, call, log>>

\* DELETE /api/gifts/[id]: Gift.findByIdAndDelete.
GiftDelete(g) ==
  /\ calls < MaxCalls
  /\ gifts[g] # NoGift
  /\ gifts' = [gifts EXCEPT ![g] = NoGift]
  /\ calls' = calls + 1
  /\ UNCHANGED <<orders, pc, data, idx, doc, txn, resp, call, log>>

Next ==
  \/ \E r \in Slots :
       \/ POST_ConnectFails(r)
       \/ POST_Unauthenticated(r)
       \/ POST_Begin(r)
       \/ POST_FindGift(r)
       \/ POST_SaveGift(r)
       \/ POST_SaveOrder(r)
       \/ POST_Commit(r)
       \/ PUT_Begin(r)
       \/ PUT_Save(r)
  \/ \E g \in GiftIds :
       \/ GiftCreate(g)
       \/ GiftUpdate(g)
       \/ GiftDelete(g)

Spec == Init /\ [][Next]_vars

\* ------------------------------------------------ the life of a stored order
\* A database that already holds one order of user u1, in any status: the
\* order a placeOrder call stores for a body that carries that status.
OrderStatuses ==
  {"pending", "confirmed", "preparing", "out_for_delivery", "delivered", "canceled"}

StoredOrder(status) ==
  NewOrder(OrderValidationData(StampUser(
      [user |-> Absent, items |-> PlainItems, deliveryTimeIsDate |-> TRUE,
       status |-> status, totalAmount |-> 2, deliveryFee |-> 0, tax |-> 0,
       discount |-> 0, tracking |-> Absent], "u1")), 0)

InitWithOrder ==
  /\ gifts \in InitialCatalogs
  /\ orders \in {<<StoredOrder(st)>> : st \in OrderStatuses}
  /\ pc = [r \in Slots |-> "idle"]
  /\ data = [r \in Slots |-> Absent]
  /\ idx = [r \in Slots |-> 0]
  /\ doc = [r \in Slots |-> Absent]
  /\ txn = [r \in Slots |-> NoTxn]
  /\ resp = [r \in Slots |-> NoResp]
  /\ call = [r \in Slots |-> NoCall]
  /\ log = [r \in Slots |-> <<>>]
  /\ calls = 0

\* updateOrder calls and catalog edits on that database.
NextWithOrder ==
  \/ \E r \in Slots :
       \/ PUT_Begin(r)
       \/ PUT_Save(r)
  \/ \E g \in GiftIds :
       \/ GiftCreate(g)
       \/ GiftUpdate(g)
       \/ GiftDelete(g)

SpecWithOrder == InitWithOrder /\ [][NextWithOrder]_vars

\* --------------------------------------------- GET /api/orders/[id] (read)
\* Lines 34-37: populate replaces items.gift by the selected fields of the
\* Gift document (of them the price is modelled), or by null when the gift
\* is gone.
Populated(o, gs) ==
  [o EXCEPT !.items =
     [j \in 1..Len(@) |->
        [@[j] EXCEPT !.gift =
           IF gs[@] = NoGift THEN NoGift ELSE [id |-> @, price |-> gs[@].price]]]]

\* Lines 19-44: connectToDatabase, getServerSession and the query for the
\* order.  The populate is a second query, on the Gift collection.
GET_Begin(r) ==
  /\ UNCHANGED <<gifts, orders, data, idx>>
  /\ \E c \in Users \cup {NoUser}, id \in 1..(Len(orders) + 1) :
       /\ BeginCall(r, "getOrder", c, <<[order |-> id]>>)
       /\ \/ PutRespond(r, <<"connectToDatabase">>, 500, "Failed to fetch order")
          \/ /\ c = NoUser
             /\ PutRespond(r, <<"connectToDatabase", "getServerSession">>,
                           401, "Authentication required")
          \/ /\ c # NoUser
             /\ LET ops == <<"connectToDatabase", "getServerSession", "Order.findById">> IN
                IF id > Len(orders)
                THEN PutRespond(r, ops, 404, "Order not found")
                ELSE /\ doc' = [doc EXCEPT ![r] = orders[id]]
                     /\ pc' = [pc EXCEPT ![r] = "populate"]
                     /\ log' = [log EXCEPT ![r] = ops]
                     /\ resp' = [resp EXCEPT ![r] = NoResp]
                     /\ txn' = [txn EXCEPT ![r] = NoTxn]

\* A slip of the read: every successful read leaves a "viewed" event on the
\* order.
GET_PopulateTouching(r) ==
  /\ pc[r] = "populate"
  /\ UNCHANGED <<gifts, call, calls, txn>>
  /\ log' = [log EXCEPT ![r] = Append(@, "populate")]
  /\ IF ~IsOwner(doc[r], call[r].caller)
     THEN Respond(r, 403, {}, "Access denied", 0) /\ UNCHANGED orders
     ELSE /\ Respond(r, 200, {}, "", Populated(doc[r], gifts))
          /\ orders' = [orders EXCEPT ![call[r].body[1].order].tracking =
                          Append(@, [status |-> "viewed", description |-> ""])]

\* Lines 34-54: the populate, the ownership check and the response, which
\* carries the populated order.
GET_Populate(r) ==
  /\ pc[r] = "populate"
  /\ UNCHANGED <<gifts, orders, call, calls, txn>>
  /\ log' = [log EXCEPT ![r] = Append(@, "populate")]
  /\ \/ Respond(r, 500, {}, "Failed to fetch order", 0)
     \/ IF ~IsOwner(doc[r], call[r].caller)
        THEN Respond(r, 403, {}, "Access denied", 0)
        ELSE Respond(r, 200, {}, "", Populated(doc[r], gifts))

\* Reads, updateOrder calls and catalog edits on a database that holds one
\* order.
NextRead ==
  \/ \E r \in Slots :
       \/ GET_Begin(r)
       \/ GET_Populate(r)
       \/ PUT_Begin(r)
       \/ PUT_Save(r)
  \/ \E g \in GiftIds :
       \/ GiftCreate(g)
       \/ GiftUpdate(g)
       \/ GiftDelete(g)

SpecRead == InitWithOrder /\ [][NextRead]_vars

\* ================================================================ claims
PlaceDone(r) == pc[r] = "done" /\ call[r].op = "placeOrder"

\* No other handler call ran between the start of r's call and now.
Uninterfered(r) == call[r].alone /\ call[r].id = calls

PreGifts(r) == call[r].gifts[1]
PreOrders(r) == call[r].orders[1]
OrdersOf(r) == {i \in 1..Len(orders) : orders[i].call = call[r].id}
Has(l, op) == \E i \in 1..Len(l) : l[i] = op
OutOfStockMessages == {"Gift " \o g \o " is out of stock or unavailable" : g \in GiftIds}
GiftConsistent(gift) == gift = NoGift \/ (gift.inStock <=> gift.stockCount > 0)

\* C1: a placeOrder call that fails the stock check of a line item after an
\* earlier line item of the same request passed (and was saved) leaves every
\* gift as it was before the call and creates no order.
C1_StockFailureIsAtomic ==
  \A r \in Slots :
    (/\ PlaceDone(r) /\ Uninterfered(r)
     /\ resp[r].status = 500 /\ resp[r].error \in OutOfStockMessages
     /\ Has(log[r], "gift.save"))
    => gifts = PreGifts(r) /\ orders = PreOrders(r)

\* C2: two overlapping placeOrder calls, each for one unit of the same gift
\* whose stockCount is one unit, neither meeting an infrastructure failure:
\* exactly one is answered 201 and the other gets the out-of-stock error.
C2_LastUnitRace ==
  \A a, b \in Slots, g \in GiftIds :
    (/\ a # b /\ PlaceDone(a) /\ PlaceDone(b)
     /\ ~call[b].alone /\ call[b].id = call[a].id + 1 /\ call[b].id = calls
     /\ \A r \in {a, b} :
          /\ call[r].body # <<>>
          /\ call[r].body[1].items = <<Item(g, MinQuantity)>>
          /\ resp[r].status = 201
             \/ (resp[r].status = 500 /\ resp[r].error \in OutOfStockMessages)
     /\ PreGifts(a)[g] # NoGift
     /\ PreGifts(a)[g].inStock /\ PreGifts(a)[g].stockCount = MinQuantity)
    => /\ Cardinality({r \in {a, b} : resp[r].status = 201}) = 1
       /\ Cardinality(OrdersOf(a) \cup OrdersOf(b)) = 1

\* C3: a placeOrder call that fails after its transaction was started leaves
\* no stock decrement and no order of that request behind.
C3_FailedCallLeavesNoTrace ==
  \A r \in Slots :
    (/\ PlaceDone(r) /\ Uninterfered(r)
     /\ resp[r].status = 500 /\ Has(log[r], "startTransaction"))
    => gifts = PreGifts(r) /\ OrdersOf(r) = {}

\* C4: inStock = (stockCount > 0) holds for every gift whenever no placeOrder
\* call is part-way through its stock updates: after every placeOrder call
\* that returned, and after every gift creation and gift update.
NoPlaceOrderInFlight ==
  \A r \in Slots : pc[r] \notin {"find", "save", "order", "commit"}

C4_InStockMatchesStockCount ==
  NoPlaceOrderInFlight => \A g \in GiftIds : GiftConsistent(gifts[g])

\* The Order invariant of the data model, written out from its statement:
\* the distance of totalAmount from sum(price * quantity) + deliveryFee +
\* tax - discount, in money steps.
TotalGap(o) ==
  LET lines == [i \in 1..Len(o.items) |->
                  (o.items[i].price * o.items[i].quantity) \div MinQuantity]
  IN  Abs(SumSeq(lines) + o.deliveryFee + o.tax - o.discount - o.totalAmount)

\* C5: every persisted order has its totalAmount within the tolerance of the
\* item/fee/tax/discount formula, after any placeOrder and updateOrder calls.
C5_TotalAmountConsistent ==
  \A i \in 1..Len(orders) : TotalGap(orders[i]) < Tolerance

\* C5 witness: an order whose total is off the formula, but within the
\* tolerance, was persisted and then saved again by updateOrder.
C5_Witness ==
  \E r \in Slots :
    /\ pc[r] = "done" /\ call[r].op = "updateOrder" /\ resp[r].status = 200
    /\ TotalGap(orders[resp[r].order]) = 1
    /\ orders[resp[r].order].status = "canceled"

\* What the request contract asks of a body, written out from its statement.
FieldPaths ==
  {"user", "items", "deliveryTime", "totalAmount"}
  \cup {"items." \o ToString(i) \o "." \o f : i \in 0..1, f \in {"quantity", "price"}}

BodyAgainstSchema(b) ==
  \/ ~b.deliveryTimeIsDate
  \/ Len(b.items) = 0
  \/ \E i \in 1..Len(b.items) : b.items[i].quantity <= 0 \/ b.items[i].price < 0
  \/ b.totalAmount <= 0

BodyAgainstMoney(b) == TotalGap(b) >= Tolerance

\* C6: a placeOrder request of an authenticated caller whose body fails the
\* schema or the monetary check is answered 400 with an error map keyed by
\* field paths, before the transaction is started: no gift was read, no gift
\* or order changed.
C6_ValidationFailsFirst ==
  \A r \in Slots :
    (/\ call[r].op = "placeOrder" /\ call[r].body # <<>>
     /\ BodyAgainstSchema(call[r].body[1]) \/ BodyAgainstMoney(call[r].body[1]))
    => /\ pc[r] = "done"
       /\ resp[r].status = 400
       /\ resp[r].errors # {}
       /\ \A e \in resp[r].errors : e[1] \in FieldPaths
       /\ \A e, f \in resp[r].errors : e[1] = f[1] => e = f
       /\ log[r] = <<"connectToDatabase", "getServerSession", "validateData">>
       /\ txn[r].state = "none"
       /\ OrdersOf(r) = {}
       /\ Uninterfered(r) => gifts = PreGifts(r) /\ orders = PreOrders(r)

\* C6 witness: a body with a wrong total for a gift that is not in the
\* catalog was answered 400, not the stock error.
C6_Witness ==
  \E r \in Slots :
    /\ PlaceDone(r) /\ call[r].body # <<>> /\ resp[r].status = 400
    /\ BodyAgainstMoney(call[r].body[1])
    /\ ~BodyAgainstSchema(call[r].body[1])
    /\ PreGifts(r)[call[r].body[1].items[1].gift] = NoGift

\* The quantity a request asks of a gift, over all its line items.
Requested(items, g) ==
  SumSeq([i \in 1..Len(items) |-> IF items[i].gift = g THEN items[i].quantity ELSE 0])

\* C7: after a successful placeOrder call run without interference every
\* gift's stockCount is its value before the call minus the quantities the
\* request asks of it, a gift at 0 is not inStock, and one order was added.
C7_SuccessDecrementsStock ==
  \A r \in Slots :
    (PlaceDone(r) /\ Uninterfered(r) /\ resp[r].status = 201)
    => /\ \A g \in GiftIds :
            LET asked == Requested(call[r].body[1].items, g) IN
            IF asked = 0
            THEN gifts[g] = PreGifts(r)[g]
            ELSE /\ gifts[g] # NoGift
                 /\ gifts[g].stockCount = PreGifts(r)[g].stockCount - asked
                 /\ gifts[g].stockCount = 0 => ~gifts[g].inStock
       /\ Len(orders) = Len(PreOrders(r)) + 1

\* C8: the order a successful placeOrder call created is stored with status
\* "pending" and the single tracking event "Order received".
C8_NewOrderIsPending ==
  \A r \in Slots :
    (PlaceDone(r) /\ resp[r].status = 201 /\ call[r].id = calls)
    => /\ orders[resp[r].order].status = "pending"
       /\ orders[resp[r].order].tracking = <<PendingEvent>>

\* C9: the owner of the order a placeOrder call created is the call's
\* authenticated caller.
C9_OwnerIsCaller ==
  \A r \in Slots :
    (PlaceDone(r) /\ resp[r].status = 201)
    => orders[resp[r].order].user = call[r].caller

\* C9 witness: an order was created from a body that named another user.
C9_Witness ==
  \E r \in Slots :
    /\ PlaceDone(r) /\ resp[r].status = 201
    /\ call[r].body[1].user \notin {Absent, call[r].caller}
    /\ orders[resp[r].order].user = call[r].caller

\* The awaited operations that reach the database.
DatabaseOps ==
  {"connectToDatabase", "startTransaction", "Gift.findById", "gift.save",
   "Order.findById", "order.save", "commitTransaction", "abortTransaction"}

\* C10: a placeOrder call without a caller identity is answered 401, changes
\* nothing, and checks the identity before it reaches the database.
C10_UnauthenticatedBeforeDatabase ==
  \A r \in Slots :
    (PlaceDone(r) /\ call[r].caller = NoUser)
    => /\ resp[r].status = 401
       /\ \E i \in 1..Len(log[r]) :
            /\ log[r][i] = "getServerSession"
            /\ \A j \in 1..(i - 1) : log[r][j] \notin DatabaseOps
       /\ Uninterfered(r) => gifts = PreGifts(r) /\ orders = PreOrders(r)

\* ------------------------------------------------------ updateOrder claims
PutDone(r) == pc[r] = "done" /\ call[r].op = "updateOrder"
PutPatch(r) == call[r].body[1].patch

\* The order an updateOrder call found, as Order.findById returned it.
PutFound(r) ==
  /\ PutDone(r)
  /\ call[r].caller # NoUser
  /\ Has(log[r], "Order.findById")
  /\ call[r].body[1].order <= Len(PreOrders(r))
PutRead(r) == PreOrders(r)[call[r].body[1].order]

\* C11: an updateOrder call of an authenticated caller who does not own the
\* order is answered 403 and saves nothing, whatever the order's status and
\* the patch.
C11_NonOwnerIsDenied ==
  \A r \in Slots :
    (PutFound(r) /\ PutRead(r).user # call[r].caller)
    => /\ resp[r].status = 403
       /\ resp[r].error = "Access denied"
       /\ ~Has(log[r], "order.save")
       /\ Uninterfered(r) => orders = PreOrders(r)

\* C11 witness: a cancellation of another user's delivered order was denied.
C11_Witness ==
  \E r \in Slots :
    /\ PutFound(r) /\ PutRead(r).user # call[r].caller
    /\ PutRead(r).status = "delivered"
    /\ PutPatch(r).status = "canceled"
    /\ resp[r].status = 403

\* C12: an updateOrder call of the owner on an order that is neither pending
\* nor confirmed is answered 400 and saves nothing, for every patch.
C12_LateOrderIsRefused ==
  \A r \in Slots :
    (/\ PutFound(r) /\ PutRead(r).user = call[r].caller
     /\ PutRead(r).status \notin {"pending", "confirmed"})
    => /\ resp[r].status = 400
       /\ resp[r].error = "Order cannot be updated at this stage"
       /\ ~Has(log[r], "order.save")
       /\ Uninterfered(r) => orders = PreOrders(r)

\* C12 witness: the owner's cancellation with new instructions was refused
\* on an order that is being prepared.
C12_Witness ==
  \E r \in Slots :
    /\ PutFound(r) /\ PutRead(r).user = call[r].caller
    /\ PutRead(r).status = "preparing"
    /\ PutPatch(r).status = "canceled"
    /\ PutPatch(r).specialInstructions # Absent
    /\ resp[r].status = 400

\* C13: a cancellation by the owner of a pending or confirmed order sets the
\* status to "canceled" and appends one "canceled" event whose description is
\* the patch's cancellationReason when the patch has one (the empty string
\* included) and "Canceled by customer" otherwise.
C13_CancellationEvent ==
  \A r \in Slots :
    (/\ PutFound(r) /\ Uninterfered(r) /\ resp[r].status = 200
     /\ PutPatch(r).status = "canceled")
    => LET o == orders[resp[r].order] IN
       /\ o.status = "canceled"
       /\ o.tracking =
            Append(PutRead(r).tracking,
                   [status |-> "canceled",
                    description |-> IF PutPatch(r).cancellationReason # Absent
                                    THEN PutPatch(r).cancellationReason
                                    ELSE "Canceled by customer"])

\* C14: the only status change is pending -> canceled or confirmed ->
\* canceled, in every step; and an updateOrder call whose patch asks for a
\* status other than "canceled" leaves the status as it was.
C14_OnlyCancellationChangesStatus ==
  /\ [][\A i \in 1..Len(orders) :
          (i <= Len(orders') /\ orders'[i].status # orders[i].status)
          => /\ orders[i].status \in {"pending", "confirmed"}
             /\ orders'[i].status = "canceled"]_vars
  /\ [](\A r \in Slots :
          (/\ PutFound(r) /\ Uninterfered(r) /\ resp[r].status = 200
           /\ PutPatch(r).status # "canceled")
          => orders[resp[r].order].status = PutRead(r).status)

\* C14 witness: a patch asking for "delivered" was saved and the order is
\* still pending.
C14_Witness ==
  \E r \in Slots :
    /\ PutFound(r) /\ resp[r].status = 200
    /\ PutPatch(r).status = "delivered"
    /\ PutPatch(r).specialInstructions # Absent
    /\ orders[resp[r].order].status = "pending"
    /\ orders[resp[r].order].specialInstructions = PutPatch(r).specialInstructions

\* C15: an updateOrder call, cancellation or not, leaves every gift as it was.
C15_UpdateLeavesStock ==
  \A r \in Slots : (PutDone(r) /\ Uninterfered(r)) => gifts = PreGifts(r)

\* C15 witness: an order that took the last unit of its gift was canceled and
\* the gift is still at stockCount 0.
C15_Witness ==
  \E r \in Slots :
    /\ PutFound(r) /\ Uninterfered(r) /\ resp[r].status = 200
    /\ PutPatch(r).status = "canceled"
    /\ LET o == orders[resp[r].order] IN
       /\ o.status = "canceled"
       /\ o.call # 0
       /\ gifts[o.items[1].gift] # NoGift
       /\ gifts[o.items[1].gift].stockCount = 0

IsPrefix(s, t) == Len(s) <= Len(t) /\ \A k \in 1..Len(s) : s[k] = t[k]

\* C16: in every step every order's tracking sequence before the step is a
\* prefix of its tracking sequence after the step.
C16_TrackingIsAppendOnly ==
  [][\A i \in 1..Len(orders) :
       /\ i <= Len(orders')
       /\ IsPrefix(orders[i].tracking, orders'[i].tracking)]_vars

\* C16 witness: two overlapping cancellations both appended their event.
C16_Witness ==
  \E i \in 1..Len(orders) :
    /\ Len(orders[i].tracking) = 3
    /\ orders[i].tracking[2] # orders[i].tracking[3]

\* ------------------------------------------------- placeOrder claims, II
\* Every call so far was a placeOrder call that has returned, none of them
\* with a failure inside its transaction.
OnlyCleanPlacements ==
  /\ NoPlaceOrderInFlight
  /\ calls = Cardinality({r \in Slots : /\ PlaceDone(r)
                                         /\ resp[r].status \in {201, 400, 401}})

\* C17: a gift's stockCount is a whole, non-negative number of units.
\* Stated for the states that placeOrder calls leave behind when none of
\* them failed inside its transaction.
C17_StockCountIsNatural ==
  OnlyCleanPlacements
  => \A g \in GiftIds :
       gifts[g] # NoGift
       => gifts[g].stockCount >= 0 /\ gifts[g].stockCount % MinQuantity = 0

\* The texts of the errors the database layer raises.
DriverErrorTexts ==
  {"MongoError: connect ECONNREFUSED", "MongoError: gift save failed",
   "DocumentNotFoundError: No document found", "MongoError: order save failed",
   "MongoError: commit failed"}

\* C18: the error text of a response to a placeOrder or updateOrder call is
\* never the text of an error of the database layer.
C18_InternalErrorIsNotEchoed ==
  \A r \in Slots :
    (pc[r] = "done" /\ call[r].op \in {"placeOrder", "updateOrder"})
    => resp[r].error \notin DriverErrorTexts

\* What is left of a gift for line item k, after the line items before it.
Remaining(pre, items, k) ==
  pre[items[k].gift].stockCount
  - SumSeq([j \in 1..(k - 1) |->
              IF items[j].gift = items[k].gift THEN items[j].quantity ELSE 0])

Offending(pre, items, k) ==
  \/ pre[items[k].gift] = NoGift
  \/ ~pre[items[k].gift].inStock
  \/ Remaining(pre, items, k) < items[k].quantity

C20_OrderLinesAreFrozen ==
  [][\A i \in 1..Len(orders) :
       /\ i <= Len(orders')
       /\ orders'[i].items = orders[i].items
       /\ orders'[i].totalAmount = orders[i].totalAmount]_vars

\* C20 witness: the gift of a stored order's line item now has another
\* price than the line item.
C20_Witness ==
  \E i \in 1..Len(orders) :
    LET item == orders[i].items[1] IN
    /\ gifts[item.gift] # NoGift
    /\ gifts[item.gift].price # item.price

\* --------------------------------------------------------- getOrder claims
GetDone(r) == pc[r] = "done" /\ call[r].op = "getOrder"

\* C21: a read of an order changes no order and no gift, and two reads of
\* the same order by its owner with no change of the database from the start
\* of the first to the end of the second return the same order data.
C21_ReadIsPureAndRepeatable ==
  /\ \A r \in Slots :
       (GetDone(r) /\ Uninterfered(r)) => gifts = PreGifts(r) /\ orders = PreOrders(r)
  /\ \A a, b \in Slots :
       (/\ a # b /\ GetDone(a) /\ GetDone(b)
        /\ resp[a].status = 200 /\ resp[b].status = 200
        /\ call[a].body = call[b].body
        /\ call[b].id = call[a].id + 1 /\ call[b].id = calls
        /\ PreGifts(a) = PreGifts(b) /\ PreOrders(a) = PreOrders(b)
        /\ gifts = PreGifts(a) /\ orders = PreOrders(a))
       => resp[a].order = resp[b].order

\* C21 witness: two overlapping reads of the owner's canceled order both
\* returned it, with the gift of its line item populated.
C21_Witness ==
  \E a, b \in Slots :
    /\ a # b /\ GetDone(a) /\ GetDone(b)
    /\ resp[a].status = 200 /\ resp[b].status = 200
    /\ ~call[b].alone
    /\ resp[a].order = resp[b].order
    /\ resp[a].order.status = "canceled"
    /\ resp[a].order.items[1].gift # NoGift
    /\ orders = PreOrders(a) /\ gifts = PreGifts(a)

\* ------------------------------------------------------ behaviour claims
\* Every call so far was a placeOrder call, each in a slot of its own, and
\* all of them have returned: no catalog edit, no call in flight.
OnlyPlacementsReturned ==
  /\ NoPlaceOrderInFlight
  /\ calls >= 1
  /\ calls = Cardinality({r \in Slots : PlaceDone(r)})

\* The catalog before the first call.
FirstGifts == PreGifts(CHOOSE r \in Slots : call[r].id = 1)

Sold(g) == SumSeq([i \in 1..Len(orders) |-> Requested(orders[i].items, g)])

\* C22: absent catalog edits, once all placeOrder calls have returned, each
\* gift's stockCount has gone down by exactly the quantities of that gift
\* in the persisted orders.
C22_StockConservation ==
  OnlyPlacementsReturned
  => \A g \in GiftIds :
       FirstGifts[g] # NoGift
       => /\ gifts[g] # NoGift
          /\ FirstGifts[g].stockCount - gifts[g].stockCount = Sold(g)

\* C23: whenever no placeOrder call is part-way through or has just failed,
\* every persisted order has a non-empty tracking sequence whose last event
\* carries the order's status.
C23_StatusIsLastEvent ==
  (NoPlaceOrderInFlight /\ \A r \in Slots : PlaceDone(r) => resp[r].status # 500)
  => \A i \in 1..Len(orders) :
       /\ orders[i].tracking # <<>>
       /\ orders[i].tracking[Len(orders[i].tracking)].status = orders[i].status

\* The "canceled" events of an order.
CanceledEvents(o) == {k \in 1..Len(o.tracking) : o.tracking[k].status = "canceled"}

\* C24: two overlapping cancellations by the owner of the same pending or
\* confirmed order, both returned without an infrastructure failure: the
\* order is canceled, has exactly one "canceled" event, and at most one of
\* the two calls was answered 200.
C24_ConcurrentCancellation ==
  \A a, b \in Slots :
    (/\ a # b /\ PutFound(a) /\ PutFound(b)
     /\ ~call[b].alone /\ call[b].id = call[a].id + 1 /\ call[b].id = calls
     /\ call[a].body[1].order = call[b].body[1].order
     /\ \A r \in {a, b} :
          /\ PutRead(r).user = call[r].caller
          /\ PutPatch(r).status = "canceled"
          /\ resp[r].status # 500
     /\ PutRead(a).status \in {"pending", "confirmed"})
    => LET o == orders[call[a].body[1].order] IN
       /\ o.status = "canceled"
       /\ Cardinality(CanceledEvents(o)) = 1
       /\ Cardinality({r \in {a, b} : resp[r].status = 200}) <= 1

====
